---------------------------- MODULE Spec2Model ----------------------------
(***************************************************************************)
(* Model of the discord.js GitHub bot (src/src/app.ts): the "pack this"    *)
(* comment trigger, the green check of a pull request, the correlation     *)
(* record kept in the PACK_STORAGE key-value store, and the handler of     *)
(* workflow_run.completed events.                                          *)
(*                                                                         *)
(* Every handler is an async function: it is modelled as one action per    *)
(* await, so that invocations interleave exactly where the code suspends.  *)
(***************************************************************************)
EXTENDS Integers, Sequences, FiniteSets, TLC

(***************************************************************************)
(* Bounds of the model.                                                    *)
(***************************************************************************)
MaxCheckRuns == 2     \* length of a check-run listing in SpecGreen
MaxTime == 2          \* distinct completion timestamps of check runs
MaxTriggers == 2      \* issue_comment events handled (commentHandler invocations)
MaxDeliveries == 2    \* workflow_run.completed deliveries handled
MaxEvents == 3        \* webhook events handled in all
MaxRuns == 2          \* workflow runs the repository ever holds
MaxListed == 6        \* runs the repository holds before a trigger, when listings are checked
MaxIssues == 2        \* issue numbers 1..MaxIssues

(***************************************************************************)
(* JavaScript values the code meets.                                       *)
(***************************************************************************)
Null == "null"                 \* JSON null in a string-typed field
Undefined == "undefined"       \* a property that does not exist

\* The property names every object literal inherits from Object.prototype:
\* `latest` starts as {} (app.ts:44), so latest[name] finds these although no
\* run has been stored under them.
ObjectPrototypeKeys ==
    {"constructor", "__proto__", "hasOwnProperty", "isPrototypeOf",
     "propertyIsEnumerable", "toLocaleString", "toString", "valueOf",
     "__defineGetter__", "__defineSetter__", "__lookupGetter__",
     "__lookupSetter__"}

(***************************************************************************)
(* Check runs as checks.listForRef returns them.                          *)
(***************************************************************************)
CheckNames == {"build", "label", "constructor"}
StatusStates == {"success", "pending", "failure", "error"}
CheckConclusions == {"success", "neutral", "skipped", "failure", "cancelled"}

\* ISO-8601 completion timestamps, in increasing order of k.
Timestamp(k) == "2024-05-01T10:0" \o ToString(k) \o ":00Z"

Timestamps == {Timestamp(k) : k \in 1..MaxTime}

\* A run that is not completed has conclusion null and completed_at null.
CheckRuns ==
    [name : CheckNames, status : {"queued", "in_progress"},
     conclusion : {Null}, completed_at : {Null}]
    \cup
    [name : CheckNames, status : {"completed"},
     conclusion : CheckConclusions, completed_at : Timestamps]

RECURSIVE SeqsUpTo(_, _)
SeqsUpTo(S, n) ==
    IF n = 0 THEN {<<>>}
    ELSE LET shorter == SeqsUpTo(S, n - 1)
         IN  shorter \cup {Append(s, x) : s \in {t \in shorter : Len(t) = n - 1}, x \in S}

\* new Date(v).valueOf(): null is the epoch, undefined is an invalid date
\* (NaN), an ISO string is its time in minutes past the model's base hour.
DateValue(v) ==
    IF v = Undefined THEN [valid |-> FALSE, ms |-> 0]
    ELSE IF v = Null THEN [valid |-> TRUE, ms |-> 0]
    ELSE [valid |-> TRUE, ms |-> CHOOSE k \in 1..(MaxTime + 1) : Timestamp(k) = v]

\* a > b on two Dates: false as soon as one of them is NaN.
DateGreater(a, b) == a.valid /\ b.valid /\ a.ms > b.ms

\* `latest` is an object: its own properties are kept as a sequence of
\* <<name, run>> pairs in insertion order.
HasOwn(obj, name) == \E i \in 1..Len(obj) : obj[i][1] = name

OwnValue(obj, name) == obj[CHOOSE i \in 1..Len(obj) : obj[i][1] = name][2]

\* Is latest[name] truthy: an own property, or one inherited from
\* Object.prototype (a function or an object, both truthy).
PropertyTruthy(obj, name) == HasOwn(obj, name) \/ name \in ObjectPrototypeKeys

\* latest[name].completed_at: the stored run's, or undefined on an inherited
\* function or object.
PropertyCompletedAt(obj, name) ==
    IF HasOwn(obj, name) THEN OwnValue(obj, name).completed_at ELSE Undefined

\* latest[name] = run
SetProperty(obj, name, run) ==
    IF HasOwn(obj, name)
    THEN [i \in 1..Len(obj) |-> IF obj[i][1] = name THEN <<name, run>> ELSE obj[i]]
    ELSE Append(obj, <<name, run>>)

\* The reducer's callback (app.ts:36-43).
ReduceStep(latest, run) ==
    IF \/ ~PropertyTruthy(latest, run.name)
       \/ DateGreater(DateValue(run.completed_at),
                      DateValue(PropertyCompletedAt(latest, run.name)))
    THEN SetProperty(latest, run.name, run)
    ELSE latest

RECURSIVE ReduceFrom(_, _, _)
ReduceFrom(latest, runs, i) ==
    IF i > Len(runs) THEN latest
    ELSE ReduceFrom(ReduceStep(latest, runs[i]), runs, i + 1)

\* check_runs.reduce(..., {}) (app.ts:35-45)
LatestCheckRuns(runs) == ReduceFrom(<<>>, runs, 1)

ObjectValues(obj) == [i \in 1..Len(obj) |-> obj[i][2]]

\* The filter's predicate (app.ts:48-53).
IsFailedCheck(run) ==
    /\ run.status = "completed"
    /\ run.conclusion # "success"
    /\ run.conclusion # "neutral"
    /\ run.conclusion # "skipped"

\* Object.values(latestCheckRuns).filter(...) (app.ts:47-54)
FailedChecks(latest) == SelectSeq(ObjectValues(latest), IsFailedCheck)

\* Mutant of IsGreenOf: a status that is not a failure counts as green.
IsGreenOfNotFailure(state, failedChecks) ==
    state \notin {"failure", "error"} /\ Len(failedChecks) = 0

\* app.ts:56
IsGreenOf(state, failedChecks) == state = "success" /\ Len(failedChecks) = 0

\* isPRGreen on the answers of its three API calls: what it logs (app.ts:57-64)
\* and what it returns (app.ts:66).
isPRGreen(state, checkRuns) ==
    LET failedChecks == FailedChecks(LatestCheckRuns(checkRuns))
        isGreen == IsGreenOf(state, failedChecks)
    IN  [returned |-> isGreen,
         latestCheckRuns |-> LatestCheckRuns(checkRuns),
         logged |-> [isGreen |-> isGreen, status |-> state, failedChecks |-> failedChecks]]

(***************************************************************************)
(* The comment trigger and the workflow-completion handler.                *)
(***************************************************************************)
TriggerPrefix == "@discord-js-bot pack this"

\* Mutant of StartsWith: String.prototype.includes in its place.
StartsWithAsIncludes(s, prefix) ==
    \E k \in 1..Len(s) :
        /\ k + Len(prefix) - 1 <= Len(s)
        /\ SubSeq(s, k, k + Len(prefix) - 1) = prefix

\* String.prototype.startsWith
StartsWith(s, prefix) ==
    Len(s) >= Len(prefix) /\ SubSeq(s, 1, Len(prefix)) = prefix

\* The comment bodies the model delivers.
Bodies ==
    {"@discord-js-bot pack this",
     "@discord-js-bot pack this please",
     "@discord-js-bot pack",
     "please @discord-js-bot pack this"}

Issues == 1..MaxIssues

\* The comment a trigger is written in: one comment per issue, whose created
\* and edited events both reach commentHandler.
CommentIdOf(n) == 500 + n

CommentIds == {CommentIdOf(n) : n \in Issues}

Permissions == {"admin", "write", "read", "triage", "none"}

\* The App's slug, as apps.getAuthenticated answers it.
AppSlug == "discord-js-bot"

Human == "octocat"

\* Mutant of PermissionOk: everybody but "none" may pack.
PermissionOkButNone(permission) == permission # "none"

\* app.ts:95
PermissionOk(permission) == permission = "admin" \/ permission = "write"

\* app.ts:82, on the fields read (state is read only on a pull request)
OpenPullRequest(isPR, state) == isPR /\ state = "open"

\* Mutant of RefOf: the merge ref in place of the head ref.
RefOfMerge(number) == "refs/pull/" \o ToString(number) \o "/merge"

\* app.ts:124
RefOf(number) == "refs/pull/" \o ToString(number) \o "/head"

\* app.ts:125
TagOf(number) == "pr-" \o ToString(number)

\* Mutant of PackKey: the dash is missing.
PackKeyNoDash(runId) == "pack" \o ToString(runId)

\* app.ts:177 and app.ts:220
PackKey(runId) == "pack-" \o ToString(runId)

\* Mutant of JsonStringify: the run's id written as the pull request's number.
JsonStringifyRunAsPr(info) ==
    << <<"prNumber", info.workflowRunId>>, <<"commentId", info.commentId>>,
       <<"tag", info.tag>>, <<"workflowRunId", info.workflowRunId>> >>

\* JSON.stringify(packInfo): the members in the order of app.ts:171-176.
JsonStringify(info) ==
    << <<"prNumber", info.prNumber>>, <<"commentId", info.commentId>>,
       <<"tag", info.tag>>, <<"workflowRunId", info.workflowRunId>> >>

JsonMember(json, key) == json[CHOOSE i \in 1..Len(json) : json[i][1] = key][2]

\* Mutant of JsonParsePackInfo: the run's id taken for the pull request's.
JsonParsePackInfoRunAsPr(json) ==
    [prNumber |-> JsonMember(json, "workflowRunId"),
     commentId |-> JsonMember(json, "commentId"),
     tag |-> JsonMember(json, "tag")]

\* const { prNumber, commentId, tag }: PackInfo = JSON.parse(stored) (app.ts:228)
JsonParsePackInfo(json) ==
    [prNumber |-> JsonMember(json, "prNumber"),
     commentId |-> JsonMember(json, "commentId"),
     tag |-> JsonMember(json, "tag")]

\* PACK_STORAGE.get of a key that is not there: null.
NoValue == <<>>

\* The comment's body (app.ts:248), its emoji, backticks and line breaks
\* left out.
ResultBody(tag) ==
    "Packages from this PR have been published with the tag " \o tag
        \o ". For discord.js using npm: npm install discord.js@" \o tag

\* The check runs and status the model answers isPRGreen's calls with.
GreenAnswers ==
    {[state |-> "success", runs |-> <<>>],
     [state |-> "pending", runs |-> <<>>],
     [state |-> "success",
      runs |-> <<[name |-> "build", status |-> "completed",
                  conclusion |-> "failure", completed_at |-> Timestamp(1)],
                 [name |-> "build", status |-> "completed",
                  conclusion |-> "success", completed_at |-> Timestamp(2)]>>],
     [state |-> "success",
      runs |-> <<[name |-> "build", status |-> "completed",
                  conclusion |-> "failure", completed_at |-> Timestamp(1)]>>]}

\* per_page of listWorkflowRuns (app.ts:157)
PerPage == 5

PublishDev == [path |-> "publish-dev.yml", name |-> "Publish dev"]

\* Runs that others start: a person dispatching the release workflow by hand,
\* the release workflow run on a push, another workflow.
ForeignRuns ==
    {[path |-> "publish-dev.yml", name |-> "Publish dev",
      event |-> "workflow_dispatch", actor |-> Human],
     [path |-> "publish-dev.yml", name |-> "Publish dev",
      event |-> "push", actor |-> Human],
     [path |-> "tests.yml", name |-> "Tests",
      event |-> "push", actor |-> Human]}

RunConclusions == {"success", "failure", "cancelled"}

CInvs == 1..MaxTriggers
WInvs == 1..MaxDeliveries

VARIABLES
    ch,             \* commentHandler invocations: position and locals
    reactTask,      \* the detached createForIssueComment promise of each
    wr,             \* workflowRunHandler invocations: position and locals
    store,          \* PACK_STORAGE: key -> value
    puts,           \* history: key -> how many times it has been put
    workflowRuns,   \* the repository's workflow runs, most recent first
    pending,        \* dispatches GitHub accepted and has not yet started
    issueComments,  \* the comments the bot created, per issue
    reactions,      \* the reactions on each trigger comment
    nextReactionId, \* the id GitHub gives the next reaction
    gpc,        \* SpecGreen: "input" before isPRGreen ran, "done" after
    gstate,     \* SpecGreen: combined status state of the head commit
    gruns,      \* SpecGreen: the check runs of the head commit
    gout        \* SpecGreen: what isPRGreen returned and logged

gvars == <<gpc, gstate, gruns, gout>>

pvars == <<ch, reactTask, wr, store, puts, workflowRuns, pending, issueComments, reactions,
           nextReactionId>>

vars == <<pvars, gvars>>

NoOutput == [returned |-> FALSE,
             latestCheckRuns |-> <<>>,
             logged |-> [isGreen |-> FALSE, status |-> "", failedChecks |-> <<>>]]

GreenInputs ==
    /\ gpc = "input"
    /\ gstate \in StatusStates
    /\ gruns \in SeqsUpTo(CheckRuns, MaxCheckRuns)
    /\ gout = NoOutput

EvaluateGreen ==
    /\ gpc = "input"
    /\ gout' = isPRGreen(gstate, gruns)
    /\ gpc' = "done"
    /\ UNCHANGED <<gstate, gruns, pvars>>


(***************************************************************************)
(* commentHandler (app.ts:69-180).  A payload field is drawn when the code *)
(* first reads it: the payload does not change and nothing else reads it.  *)
(***************************************************************************)
IdleComment ==
    [pc |-> "idle", body |-> "", user |-> "", isPR |-> FALSE, state |-> "",
     permission |-> "", number |-> 0, commentId |-> 0, green |-> FALSE,
     ref |-> "", tag |-> "", runId |-> 0, calls |-> <<>>]

IdleRun ==
    [pc |-> "idle",
     run |-> [id |-> 0, name |-> "", event |-> "", conclusion |-> "", actor |-> ""],
     slug |-> "", stored |-> NoValue,
     recordAtStart |-> FALSE, version |-> 0,   \* history
     info |-> [prNumber |-> 0, commentId |-> 0, tag |-> ""],
     eyesId |-> 0, calls |-> <<>>]

Call(api, arg) == [api |-> api, arg |-> arg]

Started(inv) == Cardinality({i \in DOMAIN inv : inv[i].pc # "idle"})

\* Invocations start in the order of their numbers (they are interchangeable),
\* while the model has events left.
MayStart(inv, i) ==
    /\ Started(ch) + Started(wr) < MaxEvents
    /\ IF i = 1 THEN TRUE ELSE inv[i - 1].pc # "idle"

\* An issue_comment event arrives: the three checks made before the first
\* await (app.ts:72-85), then the permission lookup is sent (app.ts:89).
CommentStart(i, in) ==
    /\ ch[i].pc = "idle"
    /\ i <= in.triggers
    /\ MayStart(ch, i)
    /\ \E body \in in.bodies :
         IF ~StartsWith(body, TriggerPrefix)
         THEN ch' = [ch EXCEPT ![i].pc = "done", ![i].body = body]
         ELSE \E user \in in.users :
                IF user = Null
                THEN ch' = [ch EXCEPT ![i].pc = "done", ![i].body = body,
                                      ![i].user = user]
                ELSE \E isPR \in in.isPR, state \in in.states :
                       IF ~OpenPullRequest(isPR, state)
                       THEN ch' = [ch EXCEPT ![i].pc = "done", ![i].body = body,
                                             ![i].user = user, ![i].isPR = isPR,
                                             ![i].state = IF isPR THEN state ELSE ""]
                       ELSE ch' = [ch EXCEPT
                                ![i].pc = "permission", ![i].body = body,
                                ![i].user = user, ![i].isPR = isPR,
                                ![i].state = state,
                                ![i].calls = <<Call("getCollaboratorPermissionLevel",
                                                    [username |-> user])>>]
    /\ UNCHANGED <<reactTask, wr, store, puts, workflowRuns, pending, issueComments,
                   reactions, nextReactionId,
                   gvars>>

\* The permission lookup answers (app.ts:87-98); isPRGreen is entered and its
\* first call sent (app.ts:14).
CommentPermission(i, in) ==
    /\ ch[i].pc = "permission"
    /\ \E permission \in in.permissions :
         IF ~PermissionOk(permission)
         THEN ch' = [ch EXCEPT ![i].pc = "done", ![i].permission = permission]
         ELSE \E number \in Issues :
                ch' = [ch EXCEPT
                    ![i].pc = "green", ![i].permission = permission,
                    ![i].number = number,
                    ![i].calls = Append(@, Call("pulls.get", [pull_number |-> number]))]
    /\ UNCHANGED <<reactTask, wr, store, puts, workflowRuns, pending, issueComments,
                   reactions, nextReactionId,
                   gvars>>

\* The inputs of the dispatch (app.ts:136-146).
DispatchRequest(ref, tag) ==
    [owner |-> "discordjs", repo |-> "discord.js", workflow_id |-> PublishDev.path,
     ref |-> "main", inputs |-> [ref |-> ref, tag |-> tag, dry_run |-> "false"]]

\* isPRGreen's three calls answer and it returns (app.ts:14-66).  On true the
\* reaction is started and not awaited (app.ts:114-122), ref and tag are
\* computed (app.ts:124-125) and the dispatch is sent (app.ts:136).
CommentGreen(i, in) ==
    /\ ch[i].pc = "green"
    /\ \E answer \in in.answers :
         LET seen == Append(Append(ch[i].calls,
                                   Call("getCombinedStatusForRef", [pull_number |-> ch[i].number])),
                            Call("checks.listForRef", [pull_number |-> ch[i].number]))
             isGreen == isPRGreen(answer.state, answer.runs).returned
             commentId == CommentIdOf(ch[i].number)
             ref == RefOf(ch[i].number)
             tag == TagOf(ch[i].number)
         IN  IF ~isGreen
             THEN /\ ch' = [ch EXCEPT ![i].pc = "done", ![i].green = FALSE,
                                      ![i].calls = seen]
                  /\ UNCHANGED reactTask
             ELSE /\ ch' = [ch EXCEPT
                        ![i].pc = "dispatch", ![i].green = TRUE,
                        ![i].commentId = commentId, ![i].ref = ref, ![i].tag = tag,
                        ![i].calls =
                            Append(Append(seen,
                                Call("reactions.createForIssueComment",
                                     [comment_id |-> commentId, content |-> "eyes"])),
                                Call("createWorkflowDispatch", DispatchRequest(ref, tag)))]
                  /\ reactTask' = [reactTask EXCEPT ![i] = "pending"]
    /\ UNCHANGED <<wr, store, puts, workflowRuns, pending, issueComments, reactions,
                   nextReactionId,
                   gvars>>

\* GitHub takes the dispatch and answers 204 (app.ts:136-146); the handler
\* then sleeps five seconds (app.ts:150).
CommentDispatch(i) ==
    /\ ch[i].pc = "dispatch"
    /\ pending' = pending \cup {[by |-> i, inputs |-> [ref |-> ch[i].ref, tag |-> ch[i].tag]]}
    /\ ch' = [ch EXCEPT ![i].pc = "wait"]
    /\ UNCHANGED <<reactTask, wr, store, puts, workflowRuns, issueComments, reactions,
                   nextReactionId,
                   gvars>>
\* actions.listWorkflowRuns for publish-dev.yml with per_page 5 (app.ts:153-158)
ListWorkflowRuns ==
    LET ofWorkflow == SelectSeq(workflowRuns, LAMBDA r : r.path = PublishDev.path)
    IN  SubSeq(ofWorkflow, 1, IF Len(ofWorkflow) < PerPage THEN Len(ofWorkflow) ELSE PerPage)

\* Mutant of IsCandidateRun: the status is not looked at.
IsCandidateRunAnyStatus(run) == run.event = "workflow_dispatch"

\* The predicate of find (app.ts:162)
IsCandidateRun(run) == run.event = "workflow_dispatch" /\ run.status # "completed"

\* Mutant of FindRun: the last match instead of the first.
FindRunLast(listing) ==
    IF \E k \in 1..Len(listing) : IsCandidateRun(listing[k])
    THEN CHOOSE k \in 1..Len(listing) :
             /\ IsCandidateRun(listing[k])
             /\ \A m \in (k + 1)..Len(listing) : ~IsCandidateRun(listing[m])
    ELSE 0

\* workflow_runs.find(...): the index of the first match, 0 for undefined.
FindRun(listing) ==
    IF \E k \in 1..Len(listing) : IsCandidateRun(listing[k])
    THEN CHOOSE k \in 1..Len(listing) :
             /\ IsCandidateRun(listing[k])
             /\ \A m \in 1..(k - 1) : ~IsCandidateRun(listing[m])
    ELSE 0

\* After the sleep the listing answers and the run is looked for
\* (app.ts:153-168); when one is found the record is built and the put is
\* sent (app.ts:171-177).
CommentListRuns(i) ==
    /\ ch[i].pc = "wait"
    /\ LET listing == ListWorkflowRuns
           found == FindRun(listing)
           seen == Append(ch[i].calls,
                          Call("listWorkflowRuns",
                               [workflow_id |-> PublishDev.path, per_page |-> PerPage]))
       IN  IF found = 0
           THEN ch' = [ch EXCEPT ![i].pc = "done", ![i].calls = seen]
           ELSE ch' = [ch EXCEPT ![i].pc = "put", ![i].runId = listing[found].id,
                                 ![i].calls = seen]
    /\ UNCHANGED <<reactTask, wr, store, puts, workflowRuns, pending, issueComments,
                   reactions, nextReactionId,
                   gvars>>

\* Mutant of PackInfoOf: the comment's id and the pull request's number
\* change places.
PackInfoOfSwapped(c) ==
    [prNumber |-> c.commentId, commentId |-> c.number, tag |-> c.tag,
     workflowRunId |-> c.runId]

\* The record commentHandler builds (app.ts:171-176).
PackInfoOf(c) ==
    [prNumber |-> c.number, commentId |-> c.commentId, tag |-> c.tag,
     workflowRunId |-> c.runId]

\* Mutant of StorePut: the first writer wins.
StorePutIfAbsent(kv, key, value) ==
    [k \in DOMAIN kv \cup {key} |-> IF k \in DOMAIN kv THEN kv[k] ELSE value]

\* PACK_STORAGE.put: the last writer wins.
StorePut(kv, key, value) ==
    [k \in DOMAIN kv \cup {key} |-> IF k = key THEN value ELSE kv[k]]

\* Mutant of StoreGet: a missing key answers with a record of another key.
StoreGetAnyKey(kv, key) ==
    IF key \in DOMAIN kv THEN kv[key]
    ELSE IF DOMAIN kv # {} THEN kv[CHOOSE k \in DOMAIN kv : TRUE]
    ELSE NoValue

\* PACK_STORAGE.get
StoreGet(kv, key) == IF key \in DOMAIN kv THEN kv[key] ELSE NoValue

\* Mutant of StoreDelete: nothing is deleted.
StoreDeleteNothing(kv, key) == kv

\* PACK_STORAGE.delete
StoreDelete(kv, key) == [k \in DOMAIN kv \ {key} |-> kv[k]]

TimesPut(key) == IF key \in DOMAIN puts THEN puts[key] ELSE 0

\* The store takes the record (app.ts:177) and the handler returns.
CommentPut(i) ==
    /\ ch[i].pc = "put"
    /\ store' = StorePut(store, PackKey(ch[i].runId), JsonStringify(PackInfoOf(ch[i])))
    /\ puts' = StorePut(puts, PackKey(ch[i].runId), TimesPut(PackKey(ch[i].runId)) + 1)
    /\ ch' = [ch EXCEPT ![i].pc = "done",
                        ![i].calls = Append(@, Call("PACK_STORAGE.put",
                                                    [key |-> PackKey(ch[i].runId),
                                                     expirationTtl |-> 3600]))]
    /\ UNCHANGED <<reactTask, wr, workflowRuns, pending, issueComments, reactions,
                   nextReactionId,
                   gvars>>

HasEyesOf(list, user) ==
    \E k \in 1..Len(list) : list[k].content = "eyes" /\ list[k].user = user

BotLogin == AppSlug \o "[bot]"

\* The detached reaction request reaches GitHub (app.ts:114-120): the comment
\* gets the bot's eyes reaction, once however often it is asked for.
ReactionCreated(i) ==
    /\ reactTask[i] = "pending"
    /\ reactTask' = [reactTask EXCEPT ![i] = "created"]
    /\ LET c == ch[i].commentId
       IN  IF HasEyesOf(reactions[c], BotLogin)
           THEN UNCHANGED <<reactions, nextReactionId>>
           ELSE /\ reactions' = [reactions EXCEPT
                       ![c] = Append(@, [id |-> nextReactionId, content |-> "eyes",
                                         user |-> BotLogin])]
                /\ nextReactionId' = nextReactionId + 1
    /\ UNCHANGED <<ch, wr, store, puts, workflowRuns, pending, issueComments,
                   gvars>>

(***************************************************************************)
(* workflowRunHandler (app.ts:182-277)                                     *)
(***************************************************************************)
\* Mutant of PayloadOk: the conclusion is not looked at.
PayloadOkAnyConclusion(run) ==
    /\ run.name = "Publish dev"
    /\ run.event = "workflow_dispatch"

\* The three checks made on the payload alone (app.ts:188-203).
PayloadOk(run) ==
    /\ run.name = "Publish dev"
    /\ run.event = "workflow_dispatch"
    /\ run.conclusion = "success"

\* app.ts:208
ActorOk(actor, slug) == actor = slug \o "[bot]"

\* A workflow_run.completed event of a completed run is delivered (any number
\* of times): the payload checks, then getAuthenticated is sent (app.ts:207).
RunStart(j) ==
    /\ wr[j].pc = "idle"
    /\ MayStart(wr, j)
    /\ \E k \in 1..Len(workflowRuns) :
         LET r == workflowRuns[k]
             payload == [id |-> r.id, name |-> r.name, event |-> r.event,
                         conclusion |-> r.conclusion, actor |-> r.actor]
         IN  /\ r.status = "completed"
             /\ IF ~PayloadOk(payload)
                THEN wr' = [wr EXCEPT ![j].pc = "done", ![j].run = payload]
                ELSE wr' = [wr EXCEPT ![j].pc = "auth", ![j].run = payload,
                                      ![j].recordAtStart = PackKey(r.id) \in DOMAIN store,
                                      ![j].calls = <<Call("apps.getAuthenticated", [id |-> r.id])>>]
    /\ UNCHANGED <<ch, reactTask, store, puts, workflowRuns, pending, issueComments,
                   reactions, nextReactionId,
                   gvars>>

\* The App's identity answers (app.ts:207-217); the record is asked for
\* (app.ts:220-221).
RunAuthenticated(j) ==
    /\ wr[j].pc = "auth"
    /\ IF ~ActorOk(wr[j].run.actor, AppSlug)
       THEN wr' = [wr EXCEPT ![j].pc = "done", ![j].slug = AppSlug]
       ELSE wr' = [wr EXCEPT ![j].pc = "get", ![j].slug = AppSlug,
                             ![j].calls = Append(@, Call("PACK_STORAGE.get",
                                                         [key |-> PackKey(wr[j].run.id)]))]
    /\ UNCHANGED <<ch, reactTask, store, puts, workflowRuns, pending, issueComments,
                   reactions, nextReactionId,
                   gvars>>

\* The store answers (app.ts:221-226); a record is parsed and its delete is
\* sent (app.ts:228-230).
RunGet(j) ==
    /\ wr[j].pc = "get"
    /\ LET stored == StoreGet(store, PackKey(wr[j].run.id))
       IN  IF stored = NoValue
           THEN wr' = [wr EXCEPT ![j].pc = "done"]
           ELSE wr' = [wr EXCEPT ![j].pc = "delete", ![j].stored = stored,
                                 ![j].version = TimesPut(PackKey(wr[j].run.id)),
                                 ![j].info = JsonParsePackInfo(stored),
                                 ![j].calls = Append(@, Call("PACK_STORAGE.delete",
                                                             [key |-> PackKey(wr[j].run.id)]))]
    /\ UNCHANGED <<ch, reactTask, store, puts, workflowRuns, pending, issueComments,
                   reactions, nextReactionId,
                   gvars>>

\* Variant of RunDelete: the comment is sent without the delete being made.
RunDeleteSkipped(j) ==
    /\ wr[j].pc = "delete"
    /\ wr' = [wr EXCEPT ![j].pc = "comment",
                        ![j].calls = Append(@, Call("issues.createComment",
                                                    [issue_number |-> wr[j].info.prNumber,
                                                     body |-> ResultBody(wr[j].info.tag)]))]
    /\ UNCHANGED <<ch, reactTask, store, puts, workflowRuns, pending, issueComments,
                   reactions, nextReactionId,
                   gvars>>

\* The store deletes the key (app.ts:230); createComment is sent (app.ts:244).
RunDelete(j) ==
    /\ wr[j].pc = "delete"
    /\ store' = StoreDelete(store, PackKey(wr[j].run.id))
    /\ wr' = [wr EXCEPT ![j].pc = "comment",
                        ![j].calls = Append(@, Call("issues.createComment",
                                                    [issue_number |-> wr[j].info.prNumber,
                                                     body |-> ResultBody(wr[j].info.tag)]))]
    /\ UNCHANGED <<ch, reactTask, puts, workflowRuns, pending, issueComments, reactions,
                   nextReactionId,
                   gvars>>

\* The comment is created (app.ts:244-251); the reactions of the trigger
\* comment are asked for (app.ts:254).
RunCreateComment(j) ==
    /\ wr[j].pc = "comment"
    /\ issueComments' = [issueComments EXCEPT
           ![wr[j].info.prNumber] = Append(@, ResultBody(wr[j].info.tag))]
    /\ wr' = [wr EXCEPT ![j].pc = "list",
                        ![j].calls = Append(@, Call("reactions.listForIssueComment",
                                                    [comment_id |-> wr[j].info.commentId]))]
    /\ UNCHANGED <<ch, reactTask, store, puts, workflowRuns, pending, reactions,
                   nextReactionId,
                   gvars>>

\* reactions.find((reaction) => reaction.content === 'eyes'): the id of the
\* first, 0 for undefined (app.ts:260).
FindEyes(list) ==
    IF \E k \in 1..Len(list) : list[k].content = "eyes"
    THEN list[CHOOSE k \in 1..Len(list) :
                  /\ list[k].content = "eyes"
                  /\ \A m \in 1..(k - 1) : list[m].content # "eyes"].id
    ELSE 0

\* The reactions answer (app.ts:254-261); the delete of the eyes reaction is
\* sent when there is one (app.ts:262-268).
RunListReactions(j) ==
    /\ wr[j].pc = "list"
    /\ LET eyes == FindEyes(reactions[wr[j].info.commentId])
       IN  IF eyes = 0
           THEN wr' = [wr EXCEPT ![j].pc = "done"]
           ELSE wr' = [wr EXCEPT ![j].pc = "unreact", ![j].eyesId = eyes,
                                 ![j].calls = Append(@, Call("reactions.deleteForIssueComment",
                                                             [comment_id |-> wr[j].info.commentId,
                                                              reaction_id |-> eyes]))]
    /\ UNCHANGED <<ch, reactTask, store, puts, workflowRuns, pending, issueComments,
                   reactions, nextReactionId,
                   gvars>>

\* GitHub deletes the reaction, or answers 404 when it is gone already, which
\* the catch turns into a warning (app.ts:262-270).
RunDeleteReaction(j) ==
    /\ wr[j].pc = "unreact"
    /\ reactions' = [reactions EXCEPT
           ![wr[j].info.commentId] = SelectSeq(@, LAMBDA r : r.id # wr[j].eyesId)]
    /\ wr' = [wr EXCEPT ![j].pc = "done"]
    /\ UNCHANGED <<ch, reactTask, store, puts, workflowRuns, pending, issueComments,
                   nextReactionId,
                   gvars>>

(***************************************************************************)
(* Calls that fail.  A failed call is a rejected promise and has had no    *)
(* effect on GitHub or on the store.  An error nothing catches leaves the  *)
(* handler (pc "failed") and reaches app.webhooks.onError (app.ts:289); a  *)
(* caught one is logged and the handler goes on or returns (pc "done").    *)
(***************************************************************************)
Log(level, msg) == Call("logger." \o level, [msg |-> msg])

\* getCollaboratorPermissionLevel rejects (app.ts:89).
CommentPermissionFails(i) ==
    /\ ch[i].pc = "permission"
    /\ ch' = [ch EXCEPT ![i].pc = "failed"]
    /\ UNCHANGED <<reactTask, wr, store, puts, workflowRuns, pending, issueComments,
                   reactions, nextReactionId,
                   gvars>>

\* One of the three calls of isPRGreen rejects (app.ts:14, 21, 28): the
\* calls before it were answered, the evaluation is not made.
CommentGreenFails(i) ==
    /\ ch[i].pc = "green"
    /\ \E answered \in 0..2 :
         ch' = [ch EXCEPT
             ![i].pc = "failed",
             ![i].calls =
                 IF answered = 0 THEN @
                 ELSE IF answered = 1
                 THEN Append(@, Call("getCombinedStatusForRef", [pull_number |-> ch[i].number]))
                 ELSE Append(Append(@, Call("getCombinedStatusForRef",
                                            [pull_number |-> ch[i].number])),
                             Call("checks.listForRef", [pull_number |-> ch[i].number]))]
    /\ UNCHANGED <<reactTask, wr, store, puts, workflowRuns, pending, issueComments,
                   reactions, nextReactionId,
                   gvars>>

\* Variant of CommentDispatchFails: the rejection is swallowed and the
\* handler goes on to the sleep.
CommentDispatchFailsCaught(i) ==
    /\ ch[i].pc = "dispatch"
    /\ ch' = [ch EXCEPT ![i].pc = "wait"]
    /\ UNCHANGED <<reactTask, wr, store, puts, workflowRuns, pending, issueComments,
                   reactions, nextReactionId,
                   gvars>>

\* createWorkflowDispatch rejects (app.ts:136): no run will come of it.
CommentDispatchFails(i) ==
    /\ ch[i].pc = "dispatch"
    /\ ch' = [ch EXCEPT ![i].pc = "failed"]
    /\ UNCHANGED <<reactTask, wr, store, puts, workflowRuns, pending, issueComments,
                   reactions, nextReactionId,
                   gvars>>

\* listWorkflowRuns rejects after the sleep (app.ts:153).
CommentListRunsFails(i) ==
    /\ ch[i].pc = "wait"
    /\ ch' = [ch EXCEPT
           ![i].pc = "failed",
           ![i].calls = Append(@, Call("listWorkflowRuns",
                                       [workflow_id |-> PublishDev.path,
                                        per_page |-> PerPage]))]
    /\ UNCHANGED <<reactTask, wr, store, puts, workflowRuns, pending, issueComments,
                   reactions, nextReactionId,
                   gvars>>

\* PACK_STORAGE.put rejects (app.ts:177).
CommentPutFails(i) ==
    /\ ch[i].pc = "put"
    /\ ch' = [ch EXCEPT
           ![i].pc = "failed",
           ![i].calls = Append(@, Call("PACK_STORAGE.put",
                                       [key |-> PackKey(ch[i].runId),
                                        expirationTtl |-> 3600]))]
    /\ UNCHANGED <<reactTask, wr, store, puts, workflowRuns, pending, issueComments,
                   reactions, nextReactionId,
                   gvars>>

\* Variant of ReactionFails: the reaction is awaited and nothing catches its
\* rejection.
ReactionFailsThrown(i) ==
    /\ reactTask[i] = "pending"
    /\ reactTask' = [reactTask EXCEPT ![i] = "failed"]
    /\ ch' = [ch EXCEPT ![i].pc = "failed"]
    /\ UNCHANGED <<wr, store, puts, workflowRuns, pending, issueComments, reactions,
                   nextReactionId,
                   gvars>>

\* The detached createForIssueComment rejects; its catch logs a warning
\* (app.ts:122).
ReactionFails(i) ==
    /\ reactTask[i] = "pending"
    /\ reactTask' = [reactTask EXCEPT ![i] = "failed"]
    /\ UNCHANGED <<ch, wr, store, puts, workflowRuns, pending, issueComments, reactions,
                   nextReactionId,
                   gvars>>

\* apps.getAuthenticated rejects (app.ts:207).
RunAuthenticatedFails(j) ==
    /\ wr[j].pc = "auth"
    /\ wr' = [wr EXCEPT ![j].pc = "failed"]
    /\ UNCHANGED <<ch, reactTask, store, puts, workflowRuns, pending, issueComments,
                   reactions, nextReactionId,
                   gvars>>

\* PACK_STORAGE.get rejects (app.ts:221).
RunGetFails(j) ==
    /\ wr[j].pc = "get"
    /\ wr' = [wr EXCEPT ![j].pc = "failed"]
    /\ UNCHANGED <<ch, reactTask, store, puts, workflowRuns, pending, issueComments,
                   reactions, nextReactionId,
                   gvars>>

\* PACK_STORAGE.delete rejects (app.ts:230), before the try of app.ts:243.
RunDeleteFails(j) ==
    /\ wr[j].pc = "delete"
    /\ wr' = [wr EXCEPT ![j].pc = "failed"]
    /\ UNCHANGED <<ch, reactTask, store, puts, workflowRuns, pending, issueComments,
                   reactions, nextReactionId,
                   gvars>>

\* Variant of RunCreateCommentFails: nothing catches the rejection.
RunCreateCommentFailsThrown(j) ==
    /\ wr[j].pc = "comment"
    /\ wr' = [wr EXCEPT ![j].pc = "failed"]
    /\ UNCHANGED <<ch, reactTask, store, puts, workflowRuns, pending, issueComments,
                   reactions, nextReactionId,
                   gvars>>

\* issues.createComment rejects (app.ts:244): the catch of app.ts:274 logs
\* an error and the handler returns, the reactions are not asked for.
RunCreateCommentFails(j) ==
    /\ wr[j].pc = "comment"
    /\ wr' = [wr EXCEPT ![j].pc = "done",
                        ![j].calls = Append(@, Log("error", "Failed to post comment"))]
    /\ UNCHANGED <<ch, reactTask, store, puts, workflowRuns, pending, issueComments,
                   reactions, nextReactionId,
                   gvars>>

\* reactions.listForIssueComment rejects (app.ts:254): the same catch.
RunListReactionsFails(j) ==
    /\ wr[j].pc = "list"
    /\ wr' = [wr EXCEPT ![j].pc = "done",
                        ![j].calls = Append(@, Log("error", "Failed to post comment"))]
    /\ UNCHANGED <<ch, reactTask, store, puts, workflowRuns, pending, issueComments,
                   reactions, nextReactionId,
                   gvars>>

\* reactions.deleteForIssueComment rejects for another reason than the
\* reaction being gone; its own catch logs a warning (app.ts:270).
RunDeleteReactionFails(j) ==
    /\ wr[j].pc = "unreact"
    /\ wr' = [wr EXCEPT ![j].pc = "done",
                        ![j].calls = Append(@, Log("warn", "Failed to remove eyes reaction"))]
    /\ UNCHANGED <<ch, reactTask, store, puts, workflowRuns, pending, issueComments,
                   reactions, nextReactionId,
                   gvars>>

(***************************************************************************)
(* GitHub and the store                                                    *)
(***************************************************************************)
NewRun(kind, inputs) ==
    [id |-> Len(workflowRuns) + 1, path |-> kind.path, name |-> kind.name,
     event |-> kind.event, status |-> "queued", conclusion |-> Null,
     actor |-> kind.actor, inputs |-> inputs]

\* A dispatch GitHub accepted becomes a run, some time after the 204.
GitHubStartsDispatched ==
    /\ Len(workflowRuns) < MaxRuns
    /\ \E d \in pending :
         /\ workflowRuns' =
                <<NewRun([path |-> PublishDev.path, name |-> PublishDev.name,
                          event |-> "workflow_dispatch", actor |-> BotLogin],
                         d.inputs)>> \o workflowRuns
         /\ pending' = pending \ {d}
    /\ UNCHANGED <<ch, reactTask, wr, store, puts, issueComments, reactions, nextReactionId,
                   gvars>>

\* Somebody else starts a run.
GitHubStartsForeign(in) ==
    /\ Len(workflowRuns) < MaxRuns
    /\ \E kind \in in.foreign :
         workflowRuns' = <<NewRun(kind, [ref |-> "", tag |-> ""])>> \o workflowRuns
    /\ UNCHANGED <<ch, reactTask, wr, store, puts, pending, issueComments, reactions,
                   nextReactionId,
                   gvars>>

\* A run completes with some conclusion.
GitHubCompletesRun(in) ==
    /\ \E k \in 1..Len(workflowRuns), conclusion \in in.conclusions :
         /\ workflowRuns[k].status # "completed"
         /\ workflowRuns' = [workflowRuns EXCEPT ![k].status = "completed",
                                                 ![k].conclusion = conclusion]
    /\ UNCHANGED <<ch, reactTask, wr, store, puts, pending, issueComments, reactions,
                   nextReactionId,
                   gvars>>

\* Variant of StoreExpires: the record was written without a time to live.
StoreNeverExpires == FALSE /\ UNCHANGED vars

\* A record's time to live (app.ts:177) runs out.
StoreExpires ==
    /\ \E key \in DOMAIN store : store' = StoreDelete(store, key)
    /\ UNCHANGED <<ch, reactTask, wr, puts, workflowRuns, pending, issueComments,
                   reactions, nextReactionId,
                   gvars>>

ProtocolInit ==
    /\ ch = [i \in CInvs |-> IdleComment]
    /\ reactTask = [i \in CInvs |-> "none"]
    /\ wr = [j \in WInvs |-> IdleRun]
    /\ store = <<>>
    /\ puts = <<>>
    /\ workflowRuns = <<>>
    /\ pending = {}
    /\ issueComments = [n \in Issues |-> <<>>]
    /\ reactions = [c \in CommentIds |->
                       IF c = CommentIdOf(1)
                       THEN <<[id |-> 1, content |-> "+1", user |-> Human]>>
                       ELSE <<>>]
    /\ nextReactionId = 2

GreenIdle ==
    /\ gpc = "off"
    /\ gstate = "success"
    /\ gruns = <<>>
    /\ gout = NoOutput

Init == ProtocolInit /\ GreenIdle

\* Every input the model knows of.
AllInputs ==
    [bodies |-> Bodies, users |-> {Human, Null}, isPR |-> BOOLEAN,
     states |-> {"open", "closed"}, permissions |-> Permissions,
     answers |-> GreenAnswers, foreign |-> ForeignRuns,
     conclusions |-> RunConclusions, triggers |-> MaxTriggers]

\* The inputs of the correlation protocol: triggers that pass the payload
\* checks, a permitted and a refused author, a green and a pending pull
\* request, and a release run that a person dispatched.
CoreInputs ==
    [bodies |-> {TriggerPrefix}, users |-> {Human}, isPR |-> {TRUE},
     states |-> {"open"}, permissions |-> {"write", "read"},
     answers |-> {a \in GreenAnswers : a.runs = <<>>},
     foreign |-> {r \in ForeignRuns : r.event = "workflow_dispatch"},
     conclusions |-> {"success", "failure"}, triggers |-> MaxTriggers]

\* The inputs of the completion handler's checks: one trigger that passes,
\* and every kind of run with every conclusion.
RunInputs ==
    [bodies |-> {TriggerPrefix}, users |-> {Human}, isPR |-> {TRUE},
     states |-> {"open"}, permissions |-> {"write"},
     answers |-> {a \in GreenAnswers : a.runs = <<>> /\ a.state = "success"},
     foreign |-> ForeignRuns, conclusions |-> RunConclusions, triggers |-> 1]

Next ==
    \/ \E i \in CInvs : CommentStart(i, CoreInputs)
    \/ \E i \in CInvs : CommentPermission(i, CoreInputs)
    \/ \E i \in CInvs : CommentGreen(i, CoreInputs)
    \/ \E i \in CInvs : CommentDispatch(i)
    \/ \E i \in CInvs : CommentListRuns(i)
    \/ \E i \in CInvs : CommentPut(i)
    \/ \E i \in CInvs : ReactionCreated(i)
    \/ \E j \in WInvs : RunStart(j)
    \/ \E j \in WInvs : RunAuthenticated(j)
    \/ \E j \in WInvs : RunGet(j)
    \/ \E j \in WInvs : RunDelete(j)
    \/ \E j \in WInvs : RunCreateComment(j)
    \/ \E j \in WInvs : RunListReactions(j)
    \/ \E j \in WInvs : RunDeleteReaction(j)
    \/ GitHubStartsDispatched
    \/ GitHubStartsForeign(CoreInputs)
    \/ GitHubCompletesRun(CoreInputs)
    \/ StoreExpires

Spec == Init /\ [][Next]_vars

\* commentHandler alone, on every input.
TriggerNext ==
    \/ \E i \in CInvs : CommentStart(i, AllInputs)
    \/ \E i \in CInvs : CommentPermission(i, AllInputs)
    \/ \E i \in CInvs : CommentGreen(i, AllInputs)
    \/ \E i \in CInvs : CommentDispatch(i)
    \/ \E i \in CInvs : CommentListRuns(i)
    \/ \E i \in CInvs : CommentPut(i)
    \/ \E i \in CInvs : ReactionCreated(i)
    \/ GitHubStartsDispatched
    \/ GitHubCompletesRun(AllInputs)

SpecTrigger == Init /\ [][TriggerNext]_vars

\* workflowRunHandler on every kind of run, behind one trigger.
CompletionNext ==
    \/ \E i \in CInvs : CommentStart(i, RunInputs)
    \/ \E i \in CInvs : CommentPermission(i, RunInputs)
    \/ \E i \in CInvs : CommentGreen(i, RunInputs)
    \/ \E i \in CInvs : CommentDispatch(i)
    \/ \E i \in CInvs : CommentListRuns(i)
    \/ \E i \in CInvs : CommentPut(i)
    \/ \E i \in CInvs : ReactionCreated(i)
    \/ \E j \in WInvs : RunStart(j)
    \/ \E j \in WInvs : RunAuthenticated(j)
    \/ \E j \in WInvs : RunGet(j)
    \/ \E j \in WInvs : RunDelete(j)
    \/ \E j \in WInvs : RunCreateComment(j)
    \/ \E j \in WInvs : RunListReactions(j)
    \/ \E j \in WInvs : RunDeleteReaction(j)
    \/ GitHubStartsDispatched
    \/ GitHubStartsForeign(RunInputs)
    \/ GitHubCompletesRun(RunInputs)
    \/ StoreExpires

SpecCompletion == Init /\ [][CompletionNext]_vars

\* The inputs of the runs with failing calls: triggers that pass every gate
\* and runs that succeed.
FailInputs ==
    [bodies |-> {TriggerPrefix}, users |-> {Human}, isPR |-> {TRUE},
     states |-> {"open"}, permissions |-> {"write"},
     answers |-> {a \in GreenAnswers : a.runs = <<>> /\ a.state = "success"},
     foreign |-> {}, conclusions |-> {"success"}, triggers |-> MaxTriggers]

\* Both handlers, every call of theirs answering or failing.
FailNext ==
    \/ \E i \in CInvs : CommentStart(i, FailInputs)
    \/ \E i \in CInvs : CommentPermission(i, FailInputs)
    \/ \E i \in CInvs : CommentPermissionFails(i)
    \/ \E i \in CInvs : CommentGreen(i, FailInputs)
    \/ \E i \in CInvs : CommentGreenFails(i)
    \/ \E i \in CInvs : CommentDispatch(i)
    \/ \E i \in CInvs : CommentDispatchFails(i)
    \/ \E i \in CInvs : CommentListRuns(i)
    \/ \E i \in CInvs : CommentListRunsFails(i)
    \/ \E i \in CInvs : CommentPut(i)
    \/ \E i \in CInvs : CommentPutFails(i)
    \/ \E i \in CInvs : ReactionCreated(i)
    \/ \E i \in CInvs : ReactionFails(i)
    \/ \E j \in WInvs : RunStart(j)
    \/ \E j \in WInvs : RunAuthenticated(j)
    \/ \E j \in WInvs : RunAuthenticatedFails(j)
    \/ \E j \in WInvs : RunGet(j)
    \/ \E j \in WInvs : RunGetFails(j)
    \/ \E j \in WInvs : RunDelete(j)
    \/ \E j \in WInvs : RunDeleteFails(j)
    \/ \E j \in WInvs : RunCreateComment(j)
    \/ \E j \in WInvs : RunCreateCommentFails(j)
    \/ \E j \in WInvs : RunListReactions(j)
    \/ \E j \in WInvs : RunListReactionsFails(j)
    \/ \E j \in WInvs : RunDeleteReaction(j)
    \/ \E j \in WInvs : RunDeleteReactionFails(j)
    \/ GitHubStartsDispatched
    \/ GitHubCompletesRun(FailInputs)

SpecFail == Init /\ [][FailNext]_vars

\* The keys the store can hold.
PackKeys == {PackKey(id) : id \in 1..MaxRuns}

\* The time to live of the record under one key runs out.
StoreExpiresKey(key) == StoreExpires /\ key \in DOMAIN store /\ key \notin DOMAIN store'

\* SpecCompletion with the store's promise that a key written with
\* expirationTtl (app.ts:177) does not outlive it.
SpecLive == Init /\ [][CompletionNext]_vars /\ \A key \in PackKeys : WF_vars(StoreExpiresKey(key))

\* The green check alone, on every status and every short list of check runs.
GreenInit == ProtocolInit /\ GreenInputs

GreenNext == EvaluateGreen

SpecGreen == GreenInit /\ [][GreenNext]_vars

\* A run the repository already holds when a trigger arrives.
HistoryRun(kind, status, id) ==
    [id |-> id, path |-> kind.path, name |-> kind.name, event |-> kind.event,
     status |-> status, conclusion |-> IF status = "completed" THEN "success" ELSE Null,
     actor |-> kind.actor, inputs |-> [ref |-> "", tag |-> ""]]

\* The runs of the repository, most recent first, ids in order of creation.
Histories ==
    {[k \in 1..Len(h) |-> HistoryRun(h[k][1], h[k][2], Len(h) - k + 1)] :
        h \in SeqsUpTo(ForeignRuns \X {"in_progress", "completed"}, MaxListed)}

\* One trigger that passes the gates, in a repository with runs of every kind
\* and status: what the listing returns and which run is recorded.
ListingInit ==
    /\ ch = [i \in CInvs |-> IdleComment]
    /\ reactTask = [i \in CInvs |-> "none"]
    /\ wr = [j \in WInvs |-> IdleRun]
    /\ store = <<>>
    /\ puts = <<>>
    /\ workflowRuns \in Histories
    /\ pending = {}
    /\ issueComments = [n \in Issues |-> <<>>]
    /\ reactions = [c \in CommentIds |-> <<>>]
    /\ nextReactionId = 1
    /\ GreenIdle

ListingNext ==
    \/ \E i \in CInvs : CommentStart(i, RunInputs)
    \/ \E i \in CInvs : CommentPermission(i, RunInputs)
    \/ \E i \in CInvs : CommentGreen(i, RunInputs)
    \/ \E i \in CInvs : CommentDispatch(i)
    \/ \E i \in CInvs : CommentListRuns(i)
    \/ \E i \in CInvs : CommentPut(i)

SpecListing == ListingInit /\ [][ListingNext]_vars

(***************************************************************************)
(* Claims about the green check, under SpecGreen.                          *)
(***************************************************************************)
NonBlockingConclusions == {"success", "neutral", "skipped"}

TimeRank(run) ==
    IF run.completed_at = Null THEN 0
    ELSE CHOOSE k \in 1..(MaxTime + 1) : Timestamp(k) = run.completed_at

\* The run the claim keeps for a name: among the runs of that name, the one
\* with the latest completion timestamp, the first met among equals.
ClaimedLatest(runs, name) ==
    LET idx == {i \in 1..Len(runs) : runs[i].name = name}
        best == {i \in idx : \A j \in idx : TimeRank(runs[j]) <= TimeRank(runs[i])}
    IN  runs[CHOOSE i \in best : \A j \in best : i <= j]

NamesOf(runs) == {runs[i].name : i \in 1..Len(runs)}

SelectionAsClaimed(names) ==
    gpc = "done" =>
        \A n \in names \cap NamesOf(gruns) :
            LET kept == gout.latestCheckRuns
                want == ClaimedLatest(gruns, n)
                failed == \E i \in 1..Len(gout.logged.failedChecks) :
                              gout.logged.failedChecks[i] = want
            IN  /\ \E i \in 1..Len(kept) : kept[i] = <<n, want>>
                /\ failed <=> (/\ want.status = "completed"
                               /\ want.conclusion \notin NonBlockingConclusions)

\* C9: for every list of check runs the evaluator keeps, per distinct check
\* name, the run with the latest completion timestamp (the first met among
\* equals), and counts it as failing iff it is completed with a conclusion
\* other than success, neutral, skipped.
C9_LatestPerNameAndFailing == SelectionAsClaimed(CheckNames)

\* What the code does do: the same, for the names Object.prototype does not
\* define.
LatestPerOrdinaryName == SelectionAsClaimed(CheckNames \ ObjectPrototypeKeys)
(***************************************************************************)
(* Claims about commentHandler, under SpecTrigger.                         *)
(***************************************************************************)
HasCall(inv, api) == \E k \in 1..Len(inv.calls) : inv.calls[k].api = api

\* What an invocation of commentHandler has done beyond reading: the
\* reaction, the dispatch, the store write.
Acted(i) ==
    \/ HasCall(ch[i], "createWorkflowDispatch")
    \/ HasCall(ch[i], "reactions.createForIssueComment")
    \/ HasCall(ch[i], "PACK_STORAGE.put")
    \/ reactTask[i] # "none"
    \/ \E d \in pending : d.by = i

\* The body begins with the 25 characters of the trigger.
HasExactPrefix(body) ==
    Len(body) >= 25 /\ SubSeq(body, 1, 25) = "@discord-js-bot pack this"

\* C6: a comment whose body does not start with "@discord-js-bot pack this"
\* causes no outbound API call and no store operation: the handler has
\* returned with nothing sent.
C6_NoPrefixNoCall ==
    \A i \in CInvs :
        (ch[i].pc # "idle" /\ ~HasExactPrefix(ch[i].body)) =>
            /\ ch[i].pc = "done"
            /\ ch[i].calls = <<>>
            /\ ~Acted(i)

\* C6 witness: a comment that names the bot after another word was handled,
\* while another comment went through to its dispatch.
C6_Witness ==
    \E i, k \in CInvs :
        /\ ch[i].pc = "done"
        /\ ch[i].body = "please @discord-js-bot pack this"
        /\ HasCall(ch[k], "createWorkflowDispatch")

\* C5: an invocation dispatches, reacts or writes the store only when the
\* issue is an open pull request, the author's permission is admin or write
\* and isPRGreen returned true; an author with read, triage or none, a closed
\* pull request, an issue that is no pull request and a pull request that is
\* not green each end the invocation with none of the three.
C5_DispatchOnlyThroughGates ==
    \A i \in CInvs :
        LET c == ch[i]
            refused ==
                \/ c.permission \in {"read", "triage", "none"}
                \/ c.state = "closed"
                \/ (c.user = "octocat" /\ ~c.isPR)
                \/ (HasCall(c, "checks.listForRef") /\ ~c.green)
        IN  /\ Acted(i) =>
                /\ c.isPR /\ c.state = "open"
                /\ c.permission \in {"admin", "write"}
                /\ c.green
            /\ refused => (~Acted(i) /\ c.pc = "done")

\* C5 witness: one trigger was refused for its author's permission and one
\* for a pull request that is not green, the latter after its checks were read.
C5_Witness ==
    \E i, k \in CInvs :
        /\ ch[i].pc = "done" /\ ch[i].permission = "triage"
        /\ ch[k].pc = "done" /\ ch[k].permission = "admin"
        /\ HasCall(ch[k], "checks.listForRef") /\ ~ch[k].green

\* C10: every trigger that passes the gates dispatches publish-dev.yml on
\* branch main with ref refs/pull/<n>/head, tag pr-<n> and dry_run false, n
\* being the number of the pull request commented on; GitHub holds and runs
\* the dispatch with these inputs.
C10_DispatchInputs ==
    \A i \in CInvs :
        LET c == ch[i]
            wantRef == "refs/pull/" \o ToString(c.number) \o "/head"
            wantTag == "pr-" \o ToString(c.number)
        IN  /\ c.green => HasCall(c, "createWorkflowDispatch")
            /\ \A k \in 1..Len(c.calls) :
                   c.calls[k].api = "createWorkflowDispatch" =>
                       /\ c.number \in Issues
                       /\ c.calls[k].arg.ref = "main"
                       /\ c.calls[k].arg.workflow_id = "publish-dev.yml"
                       /\ c.calls[k].arg.inputs =
                              [ref |-> wantRef, tag |-> wantTag, dry_run |-> "false"]
            /\ \A d \in pending :
                   d.by = i => d.inputs = [ref |-> wantRef, tag |-> wantTag]

\* C10 witness: pull request 2 was dispatched and GitHub runs it.
C10_Witness ==
    \E i \in CInvs :
        /\ ch[i].number = 2
        /\ HasCall(ch[i], "createWorkflowDispatch")
        /\ \E k \in 1..Len(workflowRuns) :
               workflowRuns[k].inputs = [ref |-> "refs/pull/2/head", tag |-> "pr-2"]
(***************************************************************************)
(* Claims about workflowRunHandler's checks, under SpecCompletion.         *)
(***************************************************************************)
\* The completion event is the one the handler is for.
MatchingCompletion(run) ==
    /\ run.name = "Publish dev"
    /\ run.event = "workflow_dispatch"
    /\ run.conclusion = "success"
    /\ run.actor = "discord-js-bot[bot]"

\* C7: a completion event posts a comment or deletes a record only if the
\* workflow is "Publish dev", the event workflow_dispatch, the conclusion
\* success and the triggering actor "<app-slug>[bot]".  No step of the
\* handling of any other event, a failed or cancelled run with a record
\* among them, changes the store, the comments or the reactions.
C7_OnlyMatchingCompletion ==
    /\ [](\A j \in WInvs :
            (wr[j].pc # "idle" /\ ~MatchingCompletion(wr[j].run)) =>
                /\ wr[j].pc \in {"auth", "done"}
                /\ ~HasCall(wr[j], "issues.createComment")
                /\ ~HasCall(wr[j], "PACK_STORAGE.delete")
                /\ ~HasCall(wr[j], "reactions.deleteForIssueComment"))
    /\ [][\A j \in WInvs :
            (wr'[j] # wr[j] /\ ~MatchingCompletion(wr'[j].run)) =>
                UNCHANGED <<store, issueComments, reactions>>]_vars

\* C7 witness: the event of a run that did not succeed was handled to its
\* end while the record of that run is in the store.
C7_Witness ==
    \E j \in WInvs :
        /\ wr[j].pc = "done"
        /\ wr[j].run.conclusion \in {"failure", "cancelled"}
        /\ wr[j].run.actor = "discord-js-bot[bot]"
        /\ ("pack-" \o ToString(wr[j].run.id)) \in DOMAIN store
(***************************************************************************)
(* Claims about the correlation record, under Spec.                        *)
(***************************************************************************)
StoredField(value, name) ==
    value[CHOOSE m \in 1..Len(value) : value[m][1] = name][2]

Contains(text, part) ==
    \E k \in 1..Len(text) :
        /\ k + Len(part) - 1 <= Len(text)
        /\ SubSeq(text, k, k + Len(part) - 1) = part

KeyOfRun(j) == "pack-" \o ToString(wr[j].run.id)

\* The invocation has read a record.
Consumed(j) == wr[j].stored # NoValue

CountCalls(inv, api) == Cardinality({k \in 1..Len(inv.calls) : inv.calls[k].api = api})

HasEyes(list) == \E k \in 1..Len(list) : list[k].content = "eyes"

\* C1: a matching completion event for run R with a record stored under
\* pack-R reads that record; its delete leaves no record under pack-R; its
\* comment is exactly one new comment, on the pull request the record names,
\* with the record's tag in its body; and an eyes reaction present on the
\* comment the record names is removed from it.
C1_CompletionConsumesRecord ==
    /\ [](\A j \in WInvs :
            /\ (MatchingCompletion(wr[j].run) /\ wr[j].pc = "done") =>
                   HasCall(wr[j], "PACK_STORAGE.get")
            /\ (Consumed(j) /\ wr[j].pc = "done") =>
                   /\ CountCalls(wr[j], "PACK_STORAGE.delete") = 1
                   /\ CountCalls(wr[j], "issues.createComment") = 1
                   /\ CountCalls(wr[j], "reactions.listForIssueComment") = 1)
    /\ [][\A j \in WInvs :
            LET n == StoredField(wr'[j].stored, "prNumber")
                tag == StoredField(wr'[j].stored, "tag")
                c == StoredField(wr'[j].stored, "commentId")
            IN  /\ (wr[j].pc = "get" /\ wr'[j] # wr[j] /\ KeyOfRun(j) \in DOMAIN store) =>
                       (wr'[j].pc = "delete" /\ wr'[j].stored = store[KeyOfRun(j)])
                /\ (wr[j].pc = "delete" /\ wr'[j] # wr[j]) =>
                       (wr'[j].pc = "comment" /\ KeyOfRun(j) \notin DOMAIN store')
                /\ (wr[j].pc = "comment" /\ wr'[j] # wr[j]) =>
                       /\ wr'[j].pc = "list"
                       /\ Len(issueComments'[n]) = Len(issueComments[n]) + 1
                       /\ SubSeq(issueComments'[n], 1, Len(issueComments[n])) = issueComments[n]
                       /\ Contains(issueComments'[n][Len(issueComments'[n])], tag)
                       /\ \A m \in Issues \ {n} : issueComments'[m] = issueComments[m]
                /\ (wr[j].pc = "list" /\ wr'[j] # wr[j]) =>
                       IF HasEyes(reactions[c])
                       THEN /\ wr'[j].pc = "unreact"
                            /\ \E k \in 1..Len(reactions[c]) :
                                   /\ reactions[c][k].id = wr'[j].eyesId
                                   /\ reactions[c][k].content = "eyes"
                       ELSE wr'[j].pc = "done"
                /\ (wr[j].pc = "unreact" /\ wr'[j] # wr[j]) =>
                       /\ wr'[j].pc = "done"
                       /\ \A k \in 1..Len(reactions'[c]) : reactions'[c][k].id # wr[j].eyesId
                       /\ Len(reactions'[c]) >= Len(reactions[c]) - 1]_vars

\* C1 witness: an invocation read the record of pull request 2 under a run
\* with another number, posted its comment and removed the eyes reaction it
\* found.
C1_Witness ==
    \E j \in WInvs :
        /\ wr[j].pc = "done"
        /\ Consumed(j)
        /\ wr[j].info.prNumber = 2
        /\ wr[j].run.id = 1
        /\ wr[j].eyesId # 0
        /\ KeyOfRun(j) \notin DOMAIN store
        /\ Len(issueComments[2]) = 1
        /\ ~HasEyes(reactions[wr[j].info.commentId])

\* C2 as stated: whatever the deliveries and their interleaving, a record is
\* read and deleted by one invocation only, and one comment at most is
\* posted for it.
C2_ConsumedExactlyOnce ==
    \A j, k \in WInvs :
        (j # k /\ Consumed(j) /\ Consumed(k) /\ wr[j].run.id = wr[k].run.id) =>
            wr[j].version # wr[k].version

\* C2 amended: every invocation that reads a record sends one delete and one
\* comment, and a record is read only while no invocation that read it
\* before has had its delete done: deliveries handled one after the other
\* consume it once, deliveries whose reads come before the first delete each
\* consume it.
C2_ConsumedOncePerOverlap ==
    /\ [](\A j \in WInvs :
            /\ CountCalls(wr[j], "PACK_STORAGE.delete") <= 1
            /\ CountCalls(wr[j], "issues.createComment") <= 1
            /\ Consumed(j) => HasCall(wr[j], "PACK_STORAGE.delete"))
    /\ [][\A j \in WInvs :
            (wr[j].pc = "get" /\ wr'[j].pc = "delete") =>
                \A k \in WInvs \ {j} :
                    (/\ Consumed(k)
                     /\ wr[k].run.id = wr[j].run.id
                     /\ wr[k].version = wr'[j].version) => wr[k].pc = "delete"]_vars

\* C2 witness: two deliveries for one run both read its record and both
\* posted a comment.
C2_Witness ==
    \E j, k \in WInvs :
        /\ j # k
        /\ Consumed(j) /\ Consumed(k)
        /\ wr[j].run.id = wr[k].run.id
        /\ wr[j].version = wr[k].version
        /\ wr[j].pc = "done" /\ wr[k].pc = "done"
        /\ Len(issueComments[wr[j].info.prNumber]) = 2

NoEffectCalls(inv) ==
    /\ ~HasCall(inv, "issues.createComment")
    /\ ~HasCall(inv, "PACK_STORAGE.delete")
    /\ ~HasCall(inv, "reactions.listForIssueComment")
    /\ ~HasCall(inv, "reactions.deleteForIssueComment")

\* C3 as stated: an invocation that starts when no record exists under
\* pack-R posts no comment, deletes nothing and asks for no reactions.
C3_NoRecordAtStartNoAction ==
    \A j \in WInvs :
        (wr[j].pc # "idle" /\ ~wr[j].recordAtStart) => NoEffectCalls(wr[j])

\* C3 amended: an invocation whose store get finds no record under pack-R
\* returns there: it sends nothing more and that step changes neither the
\* store nor the comments nor the reactions; and a returned invocation does
\* nothing more, so a redelivery handled after the delete changes nothing.
C3_NoRecordAtGetNoAction ==
    /\ [][\A j \in WInvs :
            (wr[j].pc = "get" /\ wr'[j] # wr[j] /\ KeyOfRun(j) \notin DOMAIN store) =>
                /\ wr'[j].pc = "done"
                /\ wr'[j].calls = wr[j].calls
                /\ NoEffectCalls(wr'[j])
                /\ UNCHANGED <<store, issueComments, reactions>>]_vars
    /\ [][\A j \in WInvs : wr[j].pc = "done" => wr'[j] = wr[j]]_vars

\* C3 witness: the event of a run was handled again after the first handling
\* had consumed the record, and found nothing.
C3_Witness ==
    \E j, k \in WInvs :
        /\ j # k
        /\ wr[j].run.id = wr[k].run.id
        /\ Consumed(j) /\ wr[j].pc = "done"
        /\ ~Consumed(k) /\ wr[k].pc = "done"
        /\ HasCall(wr[k], "PACK_STORAGE.get")
        /\ ~wr[k].recordAtStart

HasPut(i) == ch[i].pc = "done" /\ HasCall(ch[i], "PACK_STORAGE.put")

\* The record of invocation i, member by member.
OwnRecord(c) ==
    << <<"prNumber", c.number>>, <<"commentId", 500 + c.number>>,
       <<"tag", "pr-" \o ToString(c.number)>>, <<"workflowRunId", c.runId>> >>

KeyOfTrigger(c) == "pack-" \o ToString(c.runId)

RunOfId(id) == workflowRuns[CHOOSE k \in 1..Len(workflowRuns) : workflowRuns[k].id = id]

RunIds == {workflowRuns[k].id : k \in 1..Len(workflowRuns)}

CommentCallsOf(inv) ==
    {inv.calls[k] : k \in {m \in 1..Len(inv.calls) : inv.calls[m].api = "issues.createComment"}}

NoRunToFind ==
    \A k \in 1..Len(ListWorkflowRuns) :
        ~(/\ ListWorkflowRuns[k].event = "workflow_dispatch"
          /\ ListWorkflowRuns[k].status # "completed")

\* The invocation went through the listing and found no run.
EndedWithoutRun(c) ==
    c.pc = "done" /\ HasCall(c, "listWorkflowRuns") /\ c.runId = 0

\* C13: when the listing holds no workflow_dispatch run that is not
\* completed, commentHandler returns there: it sends no store write then or
\* later and that step leaves the store as it was; every record a delivery
\* reads was written by an invocation that did find a run, so nothing is
\* posted on account of the invocation that found none.
C13_NoRunNoRecord ==
    /\ [][\A i \in CInvs :
            (ch[i].pc = "wait" /\ ch'[i] # ch[i] /\ NoRunToFind) =>
                /\ EndedWithoutRun(ch'[i])
                /\ store' = store /\ puts' = puts]_vars
    /\ [][\A i \in CInvs : EndedWithoutRun(ch[i]) => ch'[i] = ch[i]]_vars
    /\ [](\A i \in CInvs : EndedWithoutRun(ch[i]) => ~HasCall(ch[i], "PACK_STORAGE.put"))
    /\ [](\A j \in WInvs :
            Consumed(j) =>
                \E k \in CInvs : /\ ~EndedWithoutRun(ch[k])
                                 /\ HasCall(ch[k], "PACK_STORAGE.put")
                                 /\ wr[j].stored = OwnRecord(ch[k]))
    /\ []((\A i \in CInvs : ch[i].pc # "idle" => EndedWithoutRun(ch[i])) =>
            (store = <<>> /\ \A n \in Issues : issueComments[n] = <<>>))

\* C13 witness: the listing came before GitHub had registered the run; the
\* invocation returned, the run of its dispatch then succeeded, and the
\* delivery for it found no record and posted nothing.
C13_Witness ==
    \E i \in CInvs, j \in WInvs :
        /\ EndedWithoutRun(ch[i])
        /\ HasCall(ch[i], "createWorkflowDispatch")
        /\ wr[j].pc = "done"
        /\ HasCall(wr[j], "PACK_STORAGE.get")
        /\ ~Consumed(j)
        /\ RunOfId(wr[j].run.id).inputs.tag = ch[i].tag
        /\ store = <<>>
        /\ \A n \in Issues : issueComments[n] = <<>>

(***************************************************************************)
(* Claims about the run that is recorded, under SpecListing.               *)
(***************************************************************************)
\* How many runs of the release workflow stand at positions 1..k.
RankOf(k) ==
    Cardinality({m \in 1..k : workflowRuns[m].path = "publish-dev.yml"})

\* Position k is one of the 5 most recent runs of the release workflow.
Listed(k) == workflowRuns[k].path = "publish-dev.yml" /\ RankOf(k) <= 5

Selectable(k) ==
    /\ Listed(k)
    /\ workflowRuns[k].event = "workflow_dispatch"
    /\ workflowRuns[k].status # "completed"

FirstSelectable ==
    IF \E k \in 1..Len(workflowRuns) : Selectable(k)
    THEN workflowRuns[CHOOSE k \in 1..Len(workflowRuns) :
                          /\ Selectable(k)
                          /\ \A m \in 1..(k - 1) : ~Selectable(m)].id
    ELSE 0

PassedGates(c) ==
    /\ HasExactPrefix(c.body)
    /\ c.user # Null /\ c.user # ""
    /\ c.isPR /\ c.state = "open"
    /\ c.permission \in {"admin", "write"}
    /\ c.green

WroteRecordFor(n) ==
    \E i \in CInvs :
        /\ ch[i].number = n
        /\ PassedGates(ch[i])
        /\ HasCall(ch[i], "PACK_STORAGE.put")

\* C19: every result comment on pull request n comes after a commentHandler
\* invocation for n that passed the five gates and wrote a record; only a
\* commentHandler write adds or changes a stored value, workflowRunHandler
\* steps only take keys away, and a comment is sent only by an invocation
\* that read a record.
C19_CommentsComeFromRecords ==
    /\ [](\A n \in Issues : issueComments[n] # <<>> => WroteRecordFor(n))
    /\ [](\A j \in WInvs : \A call \in CommentCallsOf(wr[j]) :
            Consumed(j) /\ WroteRecordFor(call.arg.issue_number))
    /\ [][(\E key \in DOMAIN store' : key \notin DOMAIN store \/ store'[key] # store[key]) =>
            \E i \in CInvs : /\ ch[i].pc = "put" /\ ch'[i].pc = "done"
                             /\ PassedGates(ch[i])
                             /\ wr' = wr]_vars
    /\ [][wr' # wr =>
            /\ DOMAIN store' \subseteq DOMAIN store
            /\ \A key \in DOMAIN store' : store'[key] = store[key]
            /\ puts' = puts]_vars
    /\ [][issueComments' # issueComments =>
            \E j \in WInvs : wr'[j] # wr[j] /\ Consumed(j) /\ wr[j].pc = "comment"]_vars

\* C19 witness: a comment stands on the pull request of a trigger that wrote
\* a record, and none on the pull request of a trigger that a gate stopped.
C19_Witness ==
    \E i, k \in CInvs : \E j \in WInvs :
        /\ HasPut(i) /\ PassedGates(ch[i])
        /\ wr[j].pc = "done" /\ Consumed(j)
        /\ Len(issueComments[ch[i].number]) = 1
        /\ ch[k].pc = "done" /\ ~PassedGates(ch[k])
        /\ ch[k].number # 0 /\ ch[k].number # ch[i].number
        /\ issueComments[ch[k].number] = <<>>

\* C20: every stored record has the key pack-<workflowRunId of its value> and
\* the tag pr-<prNumber of its value>, and no two keys hold a record of the
\* same workflow run.
C20_RecordsWellFormed ==
    /\ \A key \in DOMAIN store :
           /\ key = "pack-" \o ToString(StoredField(store[key], "workflowRunId"))
           /\ StoredField(store[key], "tag") =
                  "pr-" \o ToString(StoredField(store[key], "prNumber"))
    /\ \A key, other \in DOMAIN store :
           StoredField(store[key], "workflowRunId") =
               StoredField(store[other], "workflowRunId") => key = other

\* C20 witness: the store holds the records of two runs, for two pull
\* requests.
C20_Witness ==
    /\ DOMAIN store = {"pack-1", "pack-2"}
    /\ StoredField(store["pack-1"], "prNumber") # StoredField(store["pack-2"], "prNumber")

(***************************************************************************)
(* Claims about calls that fail, under SpecFail.                           *)
(***************************************************************************)
\* The invocation's comment was created.
Posted(j) == HasCall(wr[j], "reactions.listForIssueComment")

\* The invocation's createComment failed and was caught.
CommentFailed(j) ==
    /\ wr[j].pc = "done"
    /\ HasCall(wr[j], "issues.createComment")
    /\ HasCall(wr[j], "logger.error")
    /\ ~Posted(j)

DeleteBeforeCreate(inv) ==
    \E a, b \in 1..Len(inv.calls) :
        /\ a < b
        /\ inv.calls[a].api = "PACK_STORAGE.delete"
        /\ inv.calls[b].api = "issues.createComment"

\* C16: createComment is sent only once the invocation's store delete has
\* been done, which leaves no record under pack-R; a comment is created only
\* by an invocation in that position; and an invocation whose delete failed
\* has sent no createComment and posted nothing.
C16_DeleteBeforeComment ==
    /\ [][\A j \in WInvs :
            (wr'[j].pc = "comment" /\ wr[j].pc # "comment") =>
                /\ wr[j].pc = "delete"
                /\ KeyOfRun(j) \notin DOMAIN store']_vars
    /\ [][issueComments' # issueComments =>
            \E j \in WInvs : /\ wr[j].pc = "comment" /\ wr'[j].pc = "list"
                             /\ DeleteBeforeCreate(wr[j])]_vars
    /\ [](\A j \in WInvs :
            /\ HasCall(wr[j], "issues.createComment") => DeleteBeforeCreate(wr[j])
            /\ Posted(j) => DeleteBeforeCreate(wr[j])
            /\ wr[j].pc \in {"get", "delete"} => ~Posted(j)
            /\ wr[j].pc = "failed" =>
                   ~HasCall(wr[j], "issues.createComment") /\ ~Posted(j))
    /\ [][\A j \in WInvs :
            (wr[j].pc = "delete" /\ wr'[j].pc = "failed") =>
                UNCHANGED <<store, issueComments>>]_vars

\* C16 witness: of two deliveries that read the record, one deleted it and
\* posted, the other's delete failed and it posted nothing.
C16_Witness ==
    \E j, k \in WInvs :
        /\ Posted(j) /\ wr[j].pc = "done"
        /\ wr[k].pc = "failed"
        /\ HasCall(wr[k], "PACK_STORAGE.delete")
        /\ wr[k].run.id = wr[j].run.id
        /\ Len(issueComments[wr[j].info.prNumber]) = 1
        /\ store = <<>>

LastCall(c) == c.calls[Len(c.calls)].api

FailedAt(c, apis) == c.pc = "failed" /\ LastCall(c) \in apis

Dispatched(i) == \E d \in pending : d.by = i

\* C17: a commentHandler call that fails ends the invocation: it does
\* nothing more, sends no call twice, and its failing step changes nothing
\* on the store or on GitHub.  A failed permission lookup or green check
\* leaves no dispatch and no reaction; a failed dispatch leaves no listing
\* and no store write, and the handler gets to the listing only when GitHub
\* took the dispatch; a failed listing or store write comes after the
\* dispatch and leaves the invocation without a record, the stored records
\* being those of invocations whose write succeeded.
C17_FailurePropagates ==
    /\ [][\A i \in CInvs :
            /\ ch[i].pc = "failed" => ch'[i] = ch[i]
            /\ (ch'[i].pc = "failed" /\ ch[i].pc # "failed") =>
                   UNCHANGED <<store, puts, pending, workflowRuns, issueComments,
                               reactions, reactTask>>
            /\ (ch[i].pc = "dispatch" /\ ch'[i].pc = "wait") =>
                   (~Dispatched(i) /\ Dispatched(i)')]_vars
    /\ [](\A i \in CInvs :
            /\ \A a, b \in 1..Len(ch[i].calls) :
                   ch[i].calls[a].api = ch[i].calls[b].api => a = b
            /\ FailedAt(ch[i], {"getCollaboratorPermissionLevel", "pulls.get",
                                "getCombinedStatusForRef", "checks.listForRef"}) =>
                   /\ ~HasCall(ch[i], "createWorkflowDispatch")
                   /\ ~HasCall(ch[i], "listWorkflowRuns")
                   /\ ~HasCall(ch[i], "PACK_STORAGE.put")
                   /\ reactTask[i] = "none"
                   /\ ~Dispatched(i)
            /\ FailedAt(ch[i], {"createWorkflowDispatch"}) =>
                   /\ ~HasCall(ch[i], "listWorkflowRuns")
                   /\ ~HasCall(ch[i], "PACK_STORAGE.put")
                   /\ ~Dispatched(i)
            /\ FailedAt(ch[i], {"listWorkflowRuns", "PACK_STORAGE.put"}) =>
                   /\ HasCall(ch[i], "createWorkflowDispatch")
                   /\ ~HasPut(i)
            /\ ch[i].pc = "failed" => ~HasPut(i))
    /\ [](\A key \in DOMAIN store :
            \E k \in CInvs : /\ HasPut(k) /\ ch[k].pc # "failed"
                             /\ KeyOfTrigger(ch[k]) = key
                             /\ store[key] = OwnRecord(ch[k]))

\* C17 witness: one invocation's store write failed after its dispatch had
\* become a run, the other's dispatch failed; the store is empty.
C17_Witness ==
    \E i, k \in CInvs :
        /\ FailedAt(ch[i], {"PACK_STORAGE.put"})
        /\ ch[i].runId # 0
        /\ RunOfId(ch[i].runId).inputs.tag = ch[i].tag
        /\ FailedAt(ch[k], {"createWorkflowDispatch"})
        /\ store = <<>>
        /\ puts = <<>>

\* C14: with the gates passed, the dispatch, the listing and the store write
\* can each be taken whatever the state of the reaction task; the task's
\* success or failure touches neither handler nor the store; no step that
\* ends a commentHandler invocation with an error is a step of the reaction;
\* and in workflowRunHandler a failing reaction listing or reaction delete
\* ends the invocation as a return, never as an error.
C14_ReactionNeverBlocksNorFails ==
    /\ [](\A i \in CInvs :
            /\ ch[i].pc = "dispatch" => ENABLED CommentDispatch(i)
            /\ ch[i].pc = "wait" => ENABLED CommentListRuns(i)
            /\ ch[i].pc = "put" => ENABLED CommentPut(i)
            /\ reactTask[i] # "none" => HasCall(ch[i], "createWorkflowDispatch"))
    /\ [][\A i \in CInvs :
            /\ (reactTask[i] = "pending" /\ reactTask'[i] # "pending") =>
                   UNCHANGED <<ch, wr, store, puts, pending, workflowRuns, issueComments>>
            /\ (ch'[i].pc = "failed" /\ ch[i].pc # "failed") => reactTask' = reactTask
            /\ ch'[i] # ch[i] =>
                   (reactTask'[i] = reactTask[i] \/ ch[i].pc = "green")]_vars
    /\ [][\A j \in WInvs :
            /\ (wr[j].pc = "list" /\ wr'[j] # wr[j]) => wr'[j].pc \in {"unreact", "done"}
            /\ (wr[j].pc = "unreact" /\ wr'[j] # wr[j]) => wr'[j].pc = "done"]_vars

\* C14 witness: one trigger wrote its record although its reaction failed,
\* another wrote its record with the reaction made, and a delivery returned
\* after the delete of the reaction had failed.
C14_Witness ==
    \E i, k \in CInvs : \E j \in WInvs :
        /\ HasPut(i) /\ reactTask[i] = "failed"
        /\ HasPut(k) /\ reactTask[k] = "created"
        /\ wr[j].pc = "done"
        /\ HasCall(wr[j], "logger.warn")
        /\ HasEyes(reactions[wr[j].info.commentId])

(***************************************************************************)
(* Claims about the life of a record, under SpecLive.                      *)
(***************************************************************************)
\* C15: a record in the store is eventually not in the store, and a key
\* leaves the store only by the delete of a workflowRunHandler invocation
\* for that run or by the expiry of its time to live.
C15_RecordsEventuallyRemoved ==
    /\ \A id \in 1..MaxRuns :
           ("pack-" \o ToString(id) \in DOMAIN store)
               ~> ("pack-" \o ToString(id) \notin DOMAIN store)
    /\ [][\A key \in DOMAIN store :
            key \notin DOMAIN store' =>
                \/ \E j \in WInvs : /\ wr[j].pc = "delete" /\ wr'[j].pc = "comment"
                                    /\ KeyOfRun(j) = key /\ Consumed(j)
                \/ UNCHANGED <<ch, wr, reactTask, workflowRuns, pending, issueComments,
                               reactions>>]_vars

\* C15 witness: the run of a written record failed, its event was ignored,
\* nothing read the record, and the record is gone.
C15_Witness ==
    \E i \in CInvs, j \in WInvs :
        /\ HasPut(i)
        /\ TimesPut(KeyOfTrigger(ch[i])) = 1
        /\ wr[j].pc = "done"
        /\ wr[j].run.id = ch[i].runId
        /\ wr[j].run.conclusion = "failure"
        /\ \A k \in WInvs : ~Consumed(k)
        /\ store = <<>>
=============================================================================
